---------------------------- MODULE Spec2Model ----------------------------
(***************************************************************************)
(* A model of SocialNetworks.py: the SocialNetwork class over its Neo4j    *)
(* store.  The store is the set of Person nodes (identified by name) and   *)
(* the set of directed FRIEND relationships.  Every Cypher statement the   *)
(* class runs is an operator on that store; every public method is an      *)
(* action that composes the statements in the order the method runs them.  *)
(***************************************************************************)
EXTENDS Integers, Sequences, FiniteSets, TLC

VARIABLES
    nodes,      \* names of the Person nodes in the store
    edges,      \* FRIEND relationships, <<source, target>>
    op,         \* the method that ran last
    args,       \* its arguments
    ret,        \* its return value
    pnodes,     \* the node set before it ran
    pedges,     \* the relationship set before it ran
    order,      \* the order in which the store enumerated the nodes for it
    nbrs,       \* the order in which the store enumerated each node's friends
    queued,     \* the statements the method in progress has yet to commit
    seen        \* the store a concurrent reader saw while the method ran

vars == <<nodes, edges, op, args, ret, pnodes, pedges, order, nbrs, queued, seen>>

(***************************************************************************)
(* Bounds of the model.                                                    *)
(***************************************************************************)
\* names used by the read-only analyses
Names == {"A", "B", "C", "D"}
\* names used where every directed graph over them is explored
SmallNames == {"A", "B", "C"}
\* most keys of a mapping given to add_graph_to_neo4j
MaxKeys == 2
\* longest friend list of a key of that mapping
MaxFriends == 1
\* longest list of names given to delete_account
MaxBatch == 2
\* most FRIEND relationships in a store the walks are run on
MaxEdges == 3
\* most friendships (mirrored pairs) in a store built by add_friend alone
MaxFriendships == 4

(***************************************************************************)
(* Python values.                                                          *)
(***************************************************************************)
None == [isNone |-> TRUE]
Some(v) == [isNone |-> FALSE, val |-> v]

Range(s) == {s[i] : i \in 1..Len(s)}

\* the sequences over S of length at most n
SeqsUpTo(S, n) == UNION {[1..k -> S] : k \in 0..n}

\* the enumerations of a finite set: the sequences that list it once
Perms(S) ==
    {s \in [1..Cardinality(S) -> S] : \A i, j \in 1..Cardinality(S) : s[i] = s[j] => i = j}

(***************************************************************************)
(* The store: the Cypher statements of the class.                          *)
(***************************************************************************)
Graph(N, E) == [nodes |-> N, edges |-> E]

\* MERGE (a:Person {name: $name})
MergePerson(g, name) == Graph(g.nodes \cup {name}, g.edges)

\* MATCH (a:Person {name: $a}), (b:Person {name: $b}) MERGE (a)-[:FRIEND]->(b)
MatchMergeFriend(g, a, b) ==
    IF a \in g.nodes /\ b \in g.nodes
    THEN Graph(g.nodes, g.edges \cup {<<a, b>>})
    ELSE g

\* MATCH (a), (b) MERGE (a)-[:FRIEND]->(b) MERGE (b)-[:FRIEND]->(a)
MatchMergeBothOneWay(g, a, b) ==
    IF a \in g.nodes /\ b \in g.nodes
    THEN Graph(g.nodes, g.edges \cup {<<a, b>>})
    ELSE g

MatchMergeBoth(g, a, b) ==
    IF a \in g.nodes /\ b \in g.nodes
    THEN Graph(g.nodes, g.edges \cup {<<a, b>>, <<b, a>>})
    ELSE g

\* MATCH (a {name: $a})-[r:FRIEND]->(b {name: $b}) DELETE r
MatchDeleteFriend(g, a, b) == Graph(g.nodes, g.edges \ {<<a, b>>})

\* MATCH (n {name: $nombre}) DETACH DELETE n
DetachDeleteKeepsIncoming(g, nombre) ==
    Graph(g.nodes \ {nombre}, {e \in g.edges : e[1] # nombre})

DetachDelete(g, nombre) ==
    Graph(g.nodes \ {nombre}, {e \in g.edges : e[1] # nombre /\ e[2] # nombre})

\* the targets of the FRIEND relationships leaving name
Friends(E, name) == {e[2] : e \in {x \in E : x[1] = name}}

(***************************************************************************)
(* The write methods.                                                      *)
(***************************************************************************)
_add_friend_transaction(g, person1, person2) ==
    MatchMergeBoth(MergePerson(MergePerson(g, person1), person2), person1, person2)

_remove_friend_first_only(g, person1, person2) ==
    MatchDeleteFriend(g, person1, person2)

_remove_friend_transaction(g, person1, person2) ==
    MatchDeleteFriend(MatchDeleteFriend(g, person1, person2), person2, person1)

\* isinstance(nombres_nodos, str): a single name becomes a list of one
NameList(nombres_nodos) ==
    IF nombres_nodos.isStr THEN <<nombres_nodos.str>> ELSE nombres_nodos.list

RECURSIVE DeleteEach(_, _)
DeleteEach(g, nombres) ==
    IF nombres = <<>> THEN g
    ELSE DeleteEach(DetachDelete(g, Head(nombres)), Tail(nombres))

delete_account(g, nombres_nodos) == DeleteEach(g, NameList(nombres_nodos))

\* for node in graph: MERGE (n:Person {name: $name})
RECURSIVE MergeKeys(_, _)
MergeKeys(g, keys) ==
    IF keys = {} THEN g
    ELSE LET node == CHOOSE k \in keys : TRUE
         IN MergeKeys(MergePerson(g, node), keys \ {node})

\* for friend in friends: MATCH (a), (b) MERGE (a)-[:FRIEND]->(b)
RECURSIVE MergeFriends(_, _, _)
MergeFriends(g, node, friends) ==
    IF friends = <<>> THEN g
    ELSE MergeFriends(MatchMergeFriend(g, node, Head(friends)), node, Tail(friends))

\* for node, friends in graph.items(): ...
RECURSIVE MergeItems(_, _, _)
MergeItems(g, graph, keys) ==
    IF keys = {} THEN g
    ELSE LET node == CHOOSE k \in keys : TRUE
         IN MergeItems(MergeFriends(g, node, graph[node]), graph, keys \ {node})

add_graph_to_neo4j(g, graph) ==
    MergeItems(MergeKeys(g, DOMAIN graph), graph, DOMAIN graph)

\* all_accounts: the names of the records the store returns, in its order
all_accounts(result) == [i \in 1..Len(result) |-> result[i].nombre]

\* MATCH (n) RETURN n.name AS nombre, enumerated in the order o
MatchAllNames(o) == [i \in 1..Len(o) |-> [nombre |-> o[i]]]

(***************************************************************************)
(* The order of the store's answers.  A MATCH returns its records in an    *)
(* order the store chooses: any enumeration of the nodes, and for each     *)
(* node any enumeration of its friends.                                    *)
(***************************************************************************)
RECURSIVE NbrOrders(_, _)
NbrOrders(N, E) ==
    IF N = {} THEN {<<>>}
    ELSE LET n == CHOOSE x \in N : TRUE
         IN {(n :> p) @@ f : p \in Perms(Friends(E, n)), f \in NbrOrders(N \ {n}, E)}

\* MATCH (p:Person {name: $name})-[:FRIEND]->(f) RETURN f.name AS friend
FriendRecords(nb, name) == IF name \in DOMAIN nb THEN nb[name] ELSE <<>>

(***************************************************************************)
(* find_friend_groups.                                                     *)
(***************************************************************************)
\* for record in result: if neighbor not in visited: add it, append it
RECURSIVE ScanNeighbors(_, _, _)
ScanNeighbors(result, visited, pending) ==
    IF result = <<>> THEN [visited |-> visited, pending |-> pending]
    ELSE LET neighbor == Head(result)
         IN IF neighbor \notin visited
            THEN ScanNeighbors(Tail(result), visited \cup {neighbor},
                               Append(pending, neighbor))
            ELSE ScanNeighbors(Tail(result), visited, pending)

\* a walk that scans the start node's friends and stops
_walk_one_level(nb, node, visited) ==
    ScanNeighbors(FriendRecords(nb, node), visited \cup {node}, <<>>).visited

\* while stack: current_node = stack.pop() ...
RECURSIVE DfsLoop(_, _, _)
DfsLoop(nb, stack, visited) ==
    IF stack = <<>> THEN visited
    ELSE LET current_node == stack[Len(stack)]
             s == ScanNeighbors(FriendRecords(nb, current_node), visited,
                                SubSeq(stack, 1, Len(stack) - 1))
         IN DfsLoop(nb, s.pending, s.visited)

\* the visited set _dfs leaves
_dfs(nb, node, visited) == DfsLoop(nb, <<node>>, visited \cup {node})

\* while queue: current_node = queue.popleft() ...
RECURSIVE BfsLoop(_, _, _)
BfsLoop(nb, queue, visited) ==
    IF queue = <<>> THEN visited
    ELSE LET current_node == Head(queue)
             s == ScanNeighbors(FriendRecords(nb, current_node), visited, Tail(queue))
         IN BfsLoop(nb, s.pending, s.visited)

\* the visited set _bfs leaves
_bfs(nb, node, visited) == BfsLoop(nb, <<node>>, visited \cup {node})

\* for node in all_nodes: if node not in visited: num_groups += 1; walk.
\* walks lists, for each walk, its start, the visited set it was given and
\* the visited set it left.
RECURSIVE GroupsLoop(_, _, _, _, _, _)
GroupsLoop(use_dfs, nb, all_nodes, visited, num_groups, walks) ==
    IF all_nodes = <<>> THEN [num_groups |-> num_groups, walks |-> walks]
    ELSE LET node == Head(all_nodes)
         IN IF node \notin visited
            THEN LET after == IF use_dfs THEN _dfs(nb, node, visited)
                                         ELSE _bfs(nb, node, visited)
                 IN GroupsLoop(use_dfs, nb, Tail(all_nodes), after, num_groups + 1,
                               Append(walks, [start |-> node, given |-> visited,
                                              left |-> after]))
            ELSE GroupsLoop(use_dfs, nb, Tail(all_nodes), visited, num_groups, walks)

_find_friend_groups_transaction(use_dfs, all_nodes, nb) ==
    GroupsLoop(use_dfs, nb, all_nodes, {}, 0, <<>>).num_groups

(***************************************************************************)
(* shortest_path.                                                          *)
(***************************************************************************)
Reverse(s) == [i \in 1..Len(s) |-> s[Len(s) + 1 - i]]

\* while current in parent: path.append(current); current = parent[current]
RECURSIVE BuildPath(_, _, _)
BuildPath(parent, current, path) ==
    IF current \in DOMAIN parent
    THEN BuildPath(parent, parent[current], Append(path, current))
    ELSE path

\* for record in result: if friend not in visited: add, set parent, append
RECURSIVE ScanFriends(_, _, _, _, _)
ScanFriends(result, current, visited, parent, queue) ==
    IF result = <<>> THEN [visited |-> visited, parent |-> parent, queue |-> queue]
    ELSE LET friend == Head(result)
         IN IF friend \notin visited
            THEN ScanFriends(Tail(result), current, visited \cup {friend},
                             (friend :> current) @@ parent, Append(queue, friend))
            ELSE ScanFriends(Tail(result), current, visited, parent, queue)

\* the scan of a search that marks a node visited when it is dequeued
RECURSIVE ScanFriendsUnmarked(_, _, _, _, _)
ScanFriendsUnmarked(result, current, visited, parent, queue) ==
    IF result = <<>> THEN [visited |-> visited, parent |-> parent, queue |-> queue]
    ELSE LET friend == Head(result)
         IN IF friend \notin visited
            THEN ScanFriendsUnmarked(Tail(result), current, visited,
                                     (friend :> current) @@ parent,
                                     Append(queue, friend))
            ELSE ScanFriendsUnmarked(Tail(result), current, visited, parent, queue)

\* the search marking a node visited when it is dequeued, not when found
RECURSIVE PathLoopMarksOnDequeue(_, _, _, _, _, _)
PathLoopMarksOnDequeue(nb, person1, person2, visited, parent, queue) ==
    IF queue = <<>> THEN None
    ELSE LET current == Head(queue)
         IN IF current = person2
            THEN Some(Reverse(Append(BuildPath(parent, current, <<>>), person1)))
            ELSE LET s == ScanFriendsUnmarked(FriendRecords(nb, current), current,
                                              visited \cup {current}, parent,
                                              Tail(queue))
                 IN PathLoopMarksOnDequeue(nb, person1, person2, s.visited, s.parent,
                                           s.queue)

\* while queue: current = queue.popleft() ...
RECURSIVE PathLoop(_, _, _, _, _, _)
PathLoop(nb, person1, person2, visited, parent, queue) ==
    IF queue = <<>> THEN None
    ELSE LET current == Head(queue)
         IN IF current = person2
            THEN Some(Reverse(Append(BuildPath(parent, current, <<>>), person1)))
            ELSE LET s == ScanFriends(FriendRecords(nb, current), current, visited,
                                      parent, Tail(queue))
                 IN PathLoop(nb, person1, person2, s.visited, s.parent, s.queue)

_shortest_path_transaction(nb, person1, person2) ==
    PathLoop(nb, person1, person2, {person1}, <<>>, <<person1>>)

(***************************************************************************)
(* has_cycle.                                                              *)
(***************************************************************************)
\* path.index(x)
Index(path, x) == CHOOSE i \in 1..Len(path) : path[i] = x /\ \A j \in 1..(i - 1) : path[j] # x

\* cycle = path[path.index(x):]; cycle.append(x)
CycleFrom(path, x) == Append(SubSeq(path, Index(path, x), Len(path)), x)

\* the test "neighbor != parent" left out
IsParentNever(neighbor, parent) == FALSE

\* neighbor == parent, where the parent of a start node is None
IsParent(neighbor, parent) == parent = Some(neighbor)

\* for record in neighbors: if neighbor != parent: a visited neighbor on
\* the path is a cycle, any other is pushed with current_node as parent
RECURSIVE ScanForCycle(_, _, _, _, _, _)
ScanForCycle(neighbors, current_node, parent, visited, path, stack) ==
    IF neighbors = <<>> THEN [cycle |-> None, stack |-> stack]
    ELSE LET neighbor == Head(neighbors)
         IN IF ~IsParent(neighbor, parent)
            THEN IF neighbor \in visited /\ neighbor \in Range(path)
                 THEN [cycle |-> Some(CycleFrom(path, neighbor)), stack |-> stack]
                 ELSE ScanForCycle(Tail(neighbors), current_node, parent, visited, path,
                                   Append(stack, [node |-> neighbor,
                                                  parent |-> Some(current_node)]))
            ELSE ScanForCycle(Tail(neighbors), current_node, parent, visited, path,
                              stack)

\* while stack: current_node, parent = stack.pop() ...
RECURSIVE CycleLoop(_, _, _, _)
CycleLoop(nb, stack, visited, path) ==
    IF stack = <<>> THEN [cycle |-> None, visited |-> visited]
    ELSE LET current_node == stack[Len(stack)].node
             parent == stack[Len(stack)].parent
             rest == SubSeq(stack, 1, Len(stack) - 1)
         IN IF current_node \in visited
            THEN IF current_node \in Range(path)
                 THEN [cycle |-> Some(CycleFrom(path, current_node)),
                       visited |-> visited]
                 ELSE CycleLoop(nb, rest, visited, path)
            ELSE LET s == ScanForCycle(FriendRecords(nb, current_node), current_node,
                                       parent, visited \cup {current_node},
                                       Append(path, current_node), rest)
                 IN IF ~s.cycle.isNone
                    THEN [cycle |-> s.cycle, visited |-> visited \cup {current_node}]
                    ELSE CycleLoop(nb, s.stack, visited \cup {current_node},
                                   Append(path, current_node))

\* the loop that gives up after the walk from the first person
PeopleLoopFirstOnly(nb, result, visited) ==
    IF result = <<>> THEN None
    ELSE CycleLoop(nb, <<[node |-> Head(result), parent |-> None]>>, visited,
                   <<>>).cycle

\* for record in result: if person not in visited: walk from person
RECURSIVE PeopleLoop(_, _, _)
PeopleLoop(nb, result, visited) ==
    IF result = <<>> THEN None
    ELSE LET person == Head(result)
         IN IF person \notin visited
            THEN LET w == CycleLoop(nb, <<[node |-> person, parent |-> None]>>,
                                    visited, <<>>)
                 IN IF ~w.cycle.isNone THEN w.cycle
                    ELSE PeopleLoop(nb, Tail(result), w.visited)
            ELSE PeopleLoop(nb, Tail(result), visited)

_has_cycle_transaction(all_nodes, nb) == PeopleLoop(nb, all_nodes, {})

(***************************************************************************)
(* recommend_friends.  The method collects names in Python sets; h is the  *)
(* order in which a set of names is iterated.                              *)
(***************************************************************************)
\* the names of the set S, in the order a Python set yields them
RECURSIVE SetOrder(_, _)
SetOrder(h, S) ==
    IF h = <<>> THEN <<>>
    ELSE (IF Head(h) \in S THEN <<Head(h)>> ELSE <<>>) \o SetOrder(Tail(h), S)

\* recommendations[person] left as extended, without list(set(...))
KeepsRepeats(h, list) == list

\* recommendations[person] = list(set(recommendations[person]))
ListOfSet(h, list) == SetOrder(h, Range(list))

\* for friend in friends: extend the list by friends_of_friend - friends - {person}
RECURSIVE FriendsLoop(_, _, _, _, _, _)
FriendsLoop(E, h, person, friends, todo, list) ==
    IF todo = <<>> THEN list
    ELSE LET friend == Head(todo)
             friends_of_friend == Friends(E, friend)
             potential_friends == (friends_of_friend \ friends) \ {person}
         IN FriendsLoop(E, h, person, friends, Tail(todo),
                        list \o SetOrder(h, potential_friends))

\* for person in people: recommendations[person] = its deduplicated list
RECURSIVE RecommendLoop(_, _, _, _)
RecommendLoop(E, h, people, recommendations) ==
    IF people = <<>> THEN recommendations
    ELSE LET person == Head(people)
             friends == Friends(E, person)
             list == FriendsLoop(E, h, person, friends, SetOrder(h, friends), <<>>)
         IN RecommendLoop(E, h, Tail(people),
                          (person :> ListOfSet(h, list)) @@ recommendations)

_recommend_friends_transaction(E, people, h) == RecommendLoop(E, h, people, <<>>)

(***************************************************************************)
(* most_popular_friend.                                                    *)
(***************************************************************************)
\* MATCH (p:Person) RETURN p.name AS person, SIZE([(p)-[:FRIEND]->(f:Person) | f])
\* AS num_friends, the records in the order o of the store
CountFriends(E, o) ==
    [i \in 1..Len(o) |->
        [person |-> o[i], num_friends |-> Cardinality(Friends(E, o[i]))]]

\* max(friends_count, key=lambda x: x["num_friends"])["num_friends"]
MaxNumFriends(friends_count) ==
    CHOOSE m \in {friends_count[i].num_friends : i \in 1..Len(friends_count)} :
        \A i \in 1..Len(friends_count) : friends_count[i].num_friends <= m

\* the pairs of the records kept by the test
RECURSIVE PairsWhere(_, _)
PairsWhere(friends_count, max_friends) ==
    IF friends_count = <<>> THEN <<>>
    ELSE (IF Head(friends_count).num_friends = max_friends
          THEN <<<<Head(friends_count).person, Head(friends_count).num_friends>>>>
          ELSE <<>>) \o PairsWhere(Tail(friends_count), max_friends)

\* the filter that stops at the first record with max_friends
FirstPopularOnly(friends_count, max_friends) ==
    SubSeq(PairsWhere(friends_count, max_friends), 1, 1)

\* [(record["person"], record["num_friends"]) for record in friends_count
\*  if record["num_friends"] == max_friends]
PopularFriends(friends_count, max_friends) ==
    PairsWhere(friends_count, max_friends)

_most_popular_friend_transaction(E, o) ==
    LET friends_count == CountFriends(E, o)
    IN IF friends_count = <<>> THEN <<>>
       ELSE PopularFriends(friends_count, MaxNumFriends(friends_count))

(***************************************************************************)
(* The arguments the model gives the write methods.                        *)
(***************************************************************************)
\* a name or a list of names
NameInputs(U) ==
    {[isStr |-> TRUE, str |-> n, list |-> <<>>] : n \in U}
        \cup {[isStr |-> FALSE, str |-> "", list |-> s] : s \in SeqsUpTo(U, MaxBatch)}

\* the adjacency mappings: some keys, a list of friends each
GraphInputs(U) ==
    UNION {[K -> SeqsUpTo(U, MaxFriends)] :
              K \in {S \in SUBSET U : Cardinality(S) <= MaxKeys}}

(***************************************************************************)
(* The actions: one per method.                                            *)
(***************************************************************************)
Here == Graph(nodes, edges)

\* the caller is between two calls
Idle == op = "idle"

Write(name, a, g) ==
    /\ nodes' = g.nodes
    /\ edges' = g.edges
    /\ op' = name
    /\ args' = a
    /\ ret' = None
    /\ pnodes' = nodes
    /\ pedges' = edges
    /\ order' = <<>>
    /\ nbrs' = <<>>
    /\ UNCHANGED <<queued, seen>>

AddFriend(person1, person2) ==
    Write("add_friend", <<person1, person2>>,
          _add_friend_transaction(Here, person1, person2))

RemoveFriend(person1, person2) ==
    Write("remove_friend", <<person1, person2>>,
          _remove_friend_transaction(Here, person1, person2))

DeleteAccount(nombres_nodos) ==
    Write("delete_account", nombres_nodos, delete_account(Here, nombres_nodos))

AddGraph(graph) ==
    Write("add_graph_to_neo4j", graph, add_graph_to_neo4j(Here, graph))

AllAccounts ==
    \E o \in Perms(nodes) :
        /\ op' = "all_accounts"
        /\ args' = <<>>
        /\ ret' = all_accounts(MatchAllNames(o))
        /\ order' = o
        /\ nbrs' = <<>>
        /\ pnodes' = nodes
        /\ pedges' = edges
        /\ UNCHANGED <<nodes, edges, queued, seen>>

\* the call returns: the caller is ready for its next call
Return ==
    /\ ~Idle
    /\ op' = "idle"
    /\ args' = <<>>
    /\ ret' = None
    /\ pnodes' = {}
    /\ pedges' = {}
    /\ order' = <<>>
    /\ nbrs' = <<>>
    /\ seen' = None
    /\ UNCHANGED <<nodes, edges, queued>>

Init ==
    /\ nodes = {}
    /\ edges = {}
    /\ op = "idle"
    /\ args = <<>>
    /\ ret = None
    /\ pnodes = {}
    /\ pedges = {}
    /\ order = <<>>
    /\ nbrs = <<>>
    /\ queued = <<>>
    /\ seen = None

Next ==
    \/ Idle /\ \E a, b \in SmallNames : AddFriend(a, b)
    \/ Idle /\ \E a, b \in SmallNames : RemoveFriend(a, b)
    \/ Idle /\ \E n \in NameInputs(SmallNames) : DeleteAccount(n)
    \/ Idle /\ \E g \in GraphInputs(SmallNames) : AddGraph(g)
    \/ Idle /\ AllAccounts
    \/ Return

Spec == Init /\ [][Next]_vars

(***************************************************************************)
(* The read methods.  Each runs in one read transaction; the store chooses *)
(* the order of its answers.                                               *)
(***************************************************************************)
Read(name, a, r, o, nb) ==
    /\ op' = name
    /\ args' = a
    /\ ret' = r
    /\ order' = o
    /\ nbrs' = nb
    /\ pnodes' = nodes
    /\ pedges' = edges
    /\ UNCHANGED <<nodes, edges, queued, seen>>

FindFriendGroups(use_dfs) ==
    \E o \in Perms(nodes) : \E nb \in NbrOrders(nodes, edges) :
        Read("find_friend_groups", [use_dfs |-> use_dfs],
             _find_friend_groups_transaction(use_dfs, o, nb), o, nb)

ShortestPath(person1, person2) ==
    \E nb \in NbrOrders(nodes, edges) :
        Read("shortest_path", <<person1, person2>>,
             _shortest_path_transaction(nb, person1, person2), <<>>, nb)

HasCycle ==
    \E o \in Perms(nodes) : \E nb \in NbrOrders(nodes, edges) :
        Read("has_cycle", <<>>, _has_cycle_transaction(o, nb), o, nb)

RecommendFriends ==
    \E people \in Perms(nodes) : \E h \in Perms(nodes) :
        Read("recommend_friends", <<>>,
             _recommend_friends_transaction(edges, people, h), h, <<>>)

MostPopularFriend ==
    \E o \in Perms(nodes) :
        Read("most_popular_friend", <<>>,
             _most_popular_friend_transaction(edges, o), o, <<>>)

(***************************************************************************)
(* SpecWalk: the walks over any store of at most MaxEdges relationships,   *)
(* built by the write methods over Names.                                  *)
(***************************************************************************)
\* the mappings of one key and at most one friend
OneKeyGraphs(U) == {(n :> fs) : n \in U, fs \in SeqsUpTo(U, 1)}

\* the step keeps the store within MaxEdges relationships
WithinEdges == Cardinality(edges') <= MaxEdges

\* a single name given to delete_account
OneName(n) == [isStr |-> TRUE, str |-> n, list |-> <<>>]

NextWalk ==
    \/ Idle /\ (\E a, b \in Names : AddFriend(a, b)) /\ WithinEdges
    \/ Idle /\ (\E a, b \in Names : RemoveFriend(a, b))
    \/ Idle /\ (\E n \in Names : DeleteAccount(OneName(n)))
    \/ Idle /\ (\E g \in OneKeyGraphs(Names) : AddGraph(g)) /\ WithinEdges
    \/ Idle /\ \E use_dfs \in BOOLEAN : FindFriendGroups(use_dfs)
    \/ Idle /\ \E a, b \in Names : ShortestPath(a, b)
    \/ Idle /\ MostPopularFriend
    \/ Return

SpecWalk == Init /\ [][NextWalk]_vars

(***************************************************************************)
(* SpecMirror: the analyses over the stores of at most MaxFriendships      *)
(* friendships that add_friend, remove_friend and delete_account build     *)
(* over Names.                                                             *)
(***************************************************************************)
Friendships(E) == {{e[1], e[2]} : e \in E}

\* the step keeps the store within MaxFriendships friendships
WithinFriendships == Cardinality(Friendships(edges')) <= MaxFriendships

NextMirror ==
    \/ Idle /\ (\E a, b \in Names : AddFriend(a, b)) /\ WithinFriendships
    \/ Idle /\ (\E a, b \in Names : RemoveFriend(a, b))
    \/ Idle /\ (\E n \in Names : DeleteAccount(OneName(n)))
    \/ Idle /\ \E use_dfs \in BOOLEAN : FindFriendGroups(use_dfs)
    \/ Idle /\ HasCycle
    \/ Return

SpecMirror == Init /\ [][NextMirror]_vars

(***************************************************************************)
(* SpecRecommend: recommend_friends over the same stores.                  *)
(***************************************************************************)
NextRecommend ==
    \/ Idle /\ (\E a, b \in Names : AddFriend(a, b)) /\ WithinFriendships
    \/ Idle /\ (\E a, b \in Names : RemoveFriend(a, b))
    \/ Idle /\ (\E n \in Names : DeleteAccount(OneName(n)))
    \/ Idle /\ RecommendFriends
    \/ Return

SpecRecommend == Init /\ [][NextRecommend]_vars

(***************************************************************************)
(* SpecConc: the write methods statement by statement, beside a reader.    *)
(* add_friend and remove_friend hand one transaction function to           *)
(* session.write_transaction: its statements commit together.              *)
(* delete_account and add_graph_to_neo4j call session.run once per         *)
(* statement: each call is a transaction of its own, committed before the  *)
(* next one runs.  A reader in another session sees the committed store.   *)
(***************************************************************************)
\* one unit of commit: a transaction function or one session.run statement
Unit(kind, a, b) == [kind |-> kind, a |-> a, b |-> b]

\* the store after the unit commits
Commits(g, u) ==
    CASE u.kind = "add_friend_tx" -> _add_friend_transaction(g, u.a, u.b)
      [] u.kind = "remove_friend_tx" -> _remove_friend_transaction(g, u.a, u.b)
      [] u.kind = "detach_delete" -> DetachDelete(g, u.a)
      [] u.kind = "merge_person" -> MergePerson(g, u.a)
      [] u.kind = "merge_friend" -> MatchMergeFriend(g, u.a, u.b)

RECURSIVE CommitsAll(_, _)
CommitsAll(g, units) ==
    IF units = <<>> THEN g ELSE CommitsAll(Commits(g, Head(units)), Tail(units))

\* for nombre in nombres_nodos: session.run(MATCH (n {name: $nombre}) DETACH DELETE n)
DeleteUnits(nombres) ==
    [i \in 1..Len(nombres) |-> Unit("detach_delete", nombres[i], "")]

\* for node in graph: session.run(MERGE (n:Person {name: $name}))
PersonUnits(keys) ==
    [i \in 1..Len(keys) |-> Unit("merge_person", keys[i], "")]

\* for node, friends in graph.items(): for friend in friends: session.run(...)
RECURSIVE FriendUnits(_, _)
FriendUnits(graph, keys) ==
    IF keys = <<>> THEN <<>>
    ELSE [i \in 1..Len(graph[Head(keys)]) |->
             Unit("merge_friend", Head(keys), graph[Head(keys)][i])]
         \o FriendUnits(graph, Tail(keys))

\* the method is called: nothing is committed yet
Begin(name, a, units, o) ==
    /\ op' = name
    /\ args' = a
    /\ ret' = None
    /\ pnodes' = nodes
    /\ pedges' = edges
    /\ order' = o
    /\ nbrs' = <<>>
    /\ queued' = units
    /\ seen' = None
    /\ Cardinality(CommitsAll(Here, units).edges) <= MaxEdges
    /\ UNCHANGED <<nodes, edges>>

BeginAddFriend(person1, person2) ==
    Begin("add_friend", <<person1, person2>>,
          <<Unit("add_friend_tx", person1, person2)>>, <<>>)

BeginRemoveFriend(person1, person2) ==
    Begin("remove_friend", <<person1, person2>>,
          <<Unit("remove_friend_tx", person1, person2)>>, <<>>)

BeginDeleteAccount(nombres_nodos) ==
    Begin("delete_account", nombres_nodos,
          DeleteUnits(NameList(nombres_nodos)), <<>>)

\* keys is the order in which the dict yields its keys
BeginAddGraph(graph, keys) ==
    Begin("add_graph_to_neo4j", graph,
          PersonUnits(keys) \o FriendUnits(graph, keys), keys)

\* the next transaction of the method in progress commits
Commit ==
    /\ queued # <<>>
    /\ nodes' = Commits(Here, Head(queued)).nodes
    /\ edges' = Commits(Here, Head(queued)).edges
    /\ queued' = Tail(queued)
    /\ UNCHANGED <<op, args, ret, pnodes, pedges, order, nbrs, seen>>

\* a reader in another session reads the committed store
Observe ==
    /\ ~Idle
    /\ seen' = Some(Here)
    /\ UNCHANGED <<nodes, edges, op, args, ret, pnodes, pedges, order, nbrs, queued>>

\* the method has committed everything and returns
Finish == queued = <<>> /\ Return

NextConc ==
    \/ Idle /\ \E a, b \in SmallNames : BeginAddFriend(a, b)
    \/ Idle /\ \E a, b \in SmallNames : BeginRemoveFriend(a, b)
    \/ Idle /\ \E n \in NameInputs(SmallNames) : BeginDeleteAccount(n)
    \/ Idle /\ \E g \in GraphInputs(SmallNames) : \E keys \in Perms(DOMAIN g) :
                 BeginAddGraph(g, keys)
    \/ Commit
    \/ Observe
    \/ Finish

SpecConc == Init /\ [][NextConc]_vars

(***************************************************************************)
(* The claims about the write methods, checked under Spec.                 *)
(***************************************************************************)
\* the names a delete_account call was given
Named == Range(NameList(args))

\* C1: in every state the write methods can reach, whenever the FRIEND
\* relationship (a,b) exists, (b,a) exists too.
C1_MirroredEdges == \A e \in edges : <<e[2], e[1]>> \in edges

\* C2: add_friend(a, b) yields the old graph plus the nodes a and b and the
\* relationships (a,b) and (b,a), so each is a friend of the other, and a
\* second add_friend(a, b) changes neither the nodes nor the relationships.
C2_AddFriendEffect ==
    op = "add_friend" =>
        LET a == args[1]
            b == args[2]
        IN /\ nodes = pnodes \cup {a, b}
           /\ edges = pedges \cup {<<a, b>>, <<b, a>>}
           /\ b \in Friends(edges, a)
           /\ a \in Friends(edges, b)
           /\ _add_friend_transaction(Here, a, b) = Here

\* add_friend created both people and their friendship in a store that
\* already held other friendships
C2_Witness ==
    /\ op = "add_friend"
    /\ args[1] # args[2]
    /\ args[1] \notin pnodes
    /\ args[2] \notin pnodes
    /\ pedges # {}
    /\ <<args[1], args[2]>> \in edges

\* C3: remove_friend(a, b) removes (a,b) and (b,a) when present, so neither
\* is a friend of the other afterwards; the nodes and every other
\* relationship stay, and when the friendship or a node is absent nothing
\* changes.
C3_RemoveFriendEffect ==
    op = "remove_friend" =>
        LET a == args[1]
            b == args[2]
        IN /\ nodes = pnodes
           /\ edges = pedges \ {<<a, b>>, <<b, a>>}
           /\ b \notin Friends(edges, a)
           /\ a \notin Friends(edges, b)
           /\ (a \notin pnodes \/ b \notin pnodes
                 \/ (<<a, b>> \notin pedges /\ <<b, a>> \notin pedges))
                => (nodes = pnodes /\ edges = pedges)

\* remove_friend removed a friendship held in both directions and left
\* another relationship in place
C3_Witness ==
    /\ op = "remove_friend"
    /\ args[1] # args[2]
    /\ <<args[1], args[2]>> \in pedges
    /\ <<args[2], args[1]>> \in pedges
    /\ edges # {}

\* C4: delete_account(names) yields the old graph restricted to the nodes
\* not named: all_accounts returns no named node, no remaining node has a
\* named friend, and the other nodes and the relationships between them are
\* as before; an unknown name changes nothing.
C4_DeleteAccountEffect ==
    op = "delete_account" =>
        /\ nodes = pnodes \ Named
        /\ edges = {e \in pedges : e[1] \notin Named /\ e[2] \notin Named}
        /\ \A o \in Perms(nodes) :
               Range(all_accounts(MatchAllNames(o))) = pnodes \ Named
        /\ \A n \in nodes : Friends(edges, n) \cap Named = {}
        /\ Named \cap pnodes = {} => (nodes = pnodes /\ edges = pedges)

\* delete_account was given a list of two accounts, both friends of an
\* account that stays
C4_Witness ==
    /\ op = "delete_account"
    /\ ~args.isStr
    /\ Len(args.list) = 2
    /\ args.list[1] # args.list[2]
    /\ Named \subseteq pnodes
    /\ \E n \in nodes : Named \subseteq Friends(pedges, n)
    /\ \E n \in nodes : \A x \in Named : n \in Friends(pedges, x)

\* C5: after add_graph_to_neo4j(graph), for every key n and every friend f
\* listed under n, both are nodes and both (n,f) and (f,n) exist, also when
\* f is not a key of the mapping.
C5_AddGraphMirrorsListedFriends ==
    op = "add_graph_to_neo4j" =>
        \A n \in DOMAIN args : \A f \in Range(args[n]) :
            /\ n \in nodes
            /\ f \in nodes
            /\ <<n, f>> \in edges
            /\ <<f, n>> \in edges

(***************************************************************************)
(* Graph notions the claims about the analyses are stated with, defined    *)
(* without the walks of the class.                                         *)
(***************************************************************************)
\* the nodes reachable from those of S along FRIEND relationships
RECURSIVE Reach(_, _)
Reach(E, S) ==
    LET T == S \cup UNION {Friends(E, x) : x \in S}
    IN IF T = S THEN S ELSE Reach(E, T)

\* the connected components of a store of mirrored relationships
Components(N, E) == {Reach(E, {n}) : n \in N}

\* the least number of relationships on a path from the nodes of S to b,
\* those of S being at distance d; -1 when there is none
RECURSIVE DistFrom(_, _, _, _)
DistFrom(E, S, b, d) ==
    IF b \in S THEN d
    ELSE LET T == S \cup UNION {Friends(E, x) : x \in S}
         IN IF T = S THEN -1 ELSE DistFrom(E, T, b, d + 1)

Dist(E, a, b) == DistFrom(E, {a}, b, 0)

Mirrored(E) == \A e \in E : <<e[2], e[1]>> \in E

\* mirrored relationships, no self-friendship, no cycle
IsForest(N, E) ==
    /\ Mirrored(E)
    /\ \A e \in E : e[1] # e[2]
    /\ Cardinality(Friendships(E)) = Cardinality(N) - Cardinality(Components(N, E))

\* p leads from a to b along FRIEND relationships
IsPath(E, p, a, b) ==
    /\ Len(p) >= 1
    /\ p[1] = a
    /\ p[Len(p)] = b
    /\ \A i \in 1..(Len(p) - 1) : <<p[i], p[i + 1]>> \in E

(***************************************************************************)
(* The claims about the walks, checked under SpecWalk and SpecMirror.      *)
(***************************************************************************)
\* C6: for any graph and any order of the store's answers,
\* find_friend_groups returns the same count with use_dfs True and False,
\* and walk by walk (same start, same visited set given) _dfs and _bfs
\* leave the same visited set.
C6_DfsBfsAgree ==
    op = "find_friend_groups" =>
        /\ ret = _find_friend_groups_transaction(~args.use_dfs, order, nbrs)
        /\ GroupsLoop(TRUE, nbrs, order, {}, 0, <<>>).walks
              = GroupsLoop(FALSE, nbrs, order, {}, 0, <<>>).walks

\* find_friend_groups counted two groups among four nodes, one walk
\* reaching a node two relationships away from its start
C6_Witness ==
    /\ op = "find_friend_groups"
    /\ ret = 2
    /\ Cardinality(nodes) = 4
    /\ \E a \in nodes : \E b \in nodes : a = order[1] /\ Dist(edges, a, b) = 2

\* C7: on a store of mirrored relationships find_friend_groups returns the
\* number of connected components (an isolated node is one, the empty store
\* has none), whatever the order of the store's answers.
C7_CountsComponents ==
    (op = "find_friend_groups" /\ Mirrored(edges)) =>
        ret = Cardinality(Components(nodes, edges))

\* find_friend_groups counted a three-node component and an isolated node
C7_Witness ==
    /\ op = "find_friend_groups"
    /\ Mirrored(edges)
    /\ Cardinality(nodes) = 4
    /\ ret = 2
    /\ \E n \in nodes : Friends(edges, n) = {}

\* C8: for nodes a and b, shortest_path(a, b) returns a path whenever b is
\* reachable from a; a returned path leads from a to b along FRIEND
\* relationships and has as many of them as the distance from a to b;
\* shortest_path(a, a) is [a].
C8_ShortestPathOptimal ==
    (op = "shortest_path" /\ args[1] \in nodes /\ args[2] \in nodes) =>
        LET a == args[1]
            b == args[2]
        IN /\ b \in Reach(edges, {a}) => ~ret.isNone
           /\ ~ret.isNone =>
                 /\ IsPath(edges, ret.val, a, b)
                 /\ Len(ret.val) - 1 = Dist(edges, a, b)
           /\ a = b => ret = Some(<<a>>)

\* shortest_path returned the path of one relationship between two nodes
\* that a path of two relationships joins as well, the store listing the
\* longer way first
C8_Witness ==
    /\ op = "shortest_path"
    /\ ~ret.isNone
    /\ Len(ret.val) = 2
    /\ \E x \in nodes \ Range(ret.val) :
           /\ IsPath(edges, <<args[1], x, args[2]>>, args[1], args[2])
           /\ nbrs[args[1]][1] = x

\* C9: shortest_path(person1, person2) returns None whenever person2 is
\* unreachable from person1 or one of the two is not a node.
C9_NoneWhenUnknownOrUnreachable ==
    (/\ op = "shortest_path"
     /\ \/ args[1] \notin nodes
        \/ args[2] \notin nodes
        \/ args[2] \notin Reach(edges, {args[1]}))
        => ret = None

\* C10: on a forest of mirrored friendships has_cycle reports no cycle,
\* whatever the order of the store's answers.
C10_NoCycleOnForest ==
    (op = "has_cycle" /\ IsForest(nodes, edges)) => ret = None

\* has_cycle ran on a star of three leaves, starting from a leaf
C10_Witness ==
    /\ op = "has_cycle"
    /\ IsForest(nodes, edges)
    /\ Cardinality(nodes) = 4
    /\ \E c \in nodes : Cardinality(Friends(edges, c)) = 3 /\ order[1] # c
    /\ ret = None

(***************************************************************************)
(* The claims about has_cycle's answers, checked under SpecMirror.         *)
(***************************************************************************)
\* c is a cycle of the graph: it ends where it starts, the nodes before
\* the last are distinct and at least three, and each is a friend of the
\* one before it
IsCycleOf(E, c) ==
    /\ Len(c) >= 4
    /\ c[1] = c[Len(c)]
    /\ \A i, j \in 1..(Len(c) - 1) : c[i] = c[j] => i = j
    /\ \A i \in 1..(Len(c) - 1) : <<c[i], c[i + 1]>> \in E

\* C11: whenever has_cycle returns a node sequence on a store of mirrored
\* relationships, the sequence is a cycle of the graph: first and last
\* element equal, the elements before the last distinct and at least
\* three, every consecutive pair joined by a FRIEND relationship.
C11_ReturnedCycleIsValid ==
    (op = "has_cycle" /\ Mirrored(edges) /\ ~ret.isNone) =>
        IsCycleOf(edges, ret.val)

\* the same on the stores that hold no self-friendship
HasCycleValidWithoutSelfFriendship ==
    (/\ op = "has_cycle"
     /\ Mirrored(edges)
     /\ \A e \in edges : e[1] # e[2]
     /\ ~ret.isNone)
        => IsCycleOf(edges, ret.val)

\* the graph holds a cycle through at least three distinct nodes: it has
\* more friendships between distinct nodes than a forest on its components
HasCycleOfThree(N, E) ==
    Cardinality({f \in Friendships(E) : Cardinality(f) = 2})
        > Cardinality(N) - Cardinality(Components(N, E))

\* C14: on every store of mirrored relationships that holds a cycle through
\* at least three distinct nodes, has_cycle returns a node sequence,
\* whatever the order of the store's answers, also when the cycle lies in
\* a component other than the first one explored.
C14_CycleIsReported ==
    (op = "has_cycle" /\ Mirrored(edges) /\ HasCycleOfThree(nodes, edges)) =>
        ~ret.isNone

\* has_cycle first walked an isolated node and then reported the triangle
\* of the three other nodes
C14_Witness ==
    /\ op = "has_cycle"
    /\ Mirrored(edges)
    /\ HasCycleOfThree(nodes, edges)
    /\ Cardinality(nodes) = 4
    /\ Friends(edges, order[1]) = {}
    /\ ~ret.isNone
    /\ Len(ret.val) = 4

\* the friends of p's friends that are neither p nor friends of p
FriendsOfFriends(E, p) ==
    {x \in UNION {Friends(E, f) : f \in Friends(E, p)} :
        x \notin Friends(E, p) /\ x # p}

NoRepeats(s) == \A i, j \in 1..Len(s) : s[i] = s[j] => i = j

\* C12: for every node p of the store, recommend_friends()[p] exists, holds
\* no name twice and, as a set, is exactly the friends of p's friends that
\* are neither p nor friends of p; so it never holds p or a friend of p.
C12_RecommendsFriendsOfFriends ==
    op = "recommend_friends" =>
        /\ nodes \subseteq DOMAIN ret
        /\ \A p \in nodes :
            /\ Range(ret[p]) = FriendsOfFriends(edges, p)
            /\ NoRepeats(ret[p])
            /\ p \notin Range(ret[p])
            /\ Range(ret[p]) \cap Friends(edges, p) = {}

\* a name is recommended to p that two different friends of p both have as
\* a friend, while another friend of a friend is left out as already a friend
C12_Witness ==
    /\ op = "recommend_friends"
    /\ \E p \in nodes : \E f1, f2 \in Friends(edges, p) : \E x \in Range(ret[p]) :
        /\ f1 # f2
        /\ x \in Friends(edges, f1) \cap Friends(edges, f2)
        /\ p \in Friends(edges, f1)

\* the number of FRIEND relationships that leave n
OutDegree(E, n) == Cardinality({e \in E : e[1] = n})

\* C13: most_popular_friend returns exactly the pairs (n, out-degree of n)
\* of the nodes n whose out-degree is the largest of the store: every tied
\* node, every node with 0 when the store has no relationship, and the
\* empty list when the store has no node.
C13_MostPopularAreAllMaxima ==
    op = "most_popular_friend" =>
        /\ Range(ret) =
             {<<n, OutDegree(edges, n)>> : n \in
                 {m \in nodes : \A k \in nodes :
                     OutDegree(edges, k) <= OutDegree(edges, m)}}
        /\ (nodes = {} => ret = <<>>)

\* two nodes tie at the largest out-degree, a third has fewer friends, and
\* both tied nodes are returned
C13_Witness ==
    /\ op = "most_popular_friend"
    /\ Len(ret) = 2
    /\ ret[1][1] # ret[2][1]
    /\ ret[1][2] >= 1
    /\ \E n \in nodes : OutDegree(edges, n) < ret[1][2]

\* the store the whole method leaves, computed from the store it found
WholeMutation(g, name, a) ==
    CASE name = "add_friend" -> _add_friend_transaction(g, a[1], a[2])
      [] name = "remove_friend" -> _remove_friend_transaction(g, a[1], a[2])
      [] name = "delete_account" -> delete_account(g, a)
      [] name = "add_graph_to_neo4j" -> add_graph_to_neo4j(g, a)

\* C15: every store a concurrent reader sees while add_friend,
\* remove_friend, delete_account or add_graph_to_neo4j runs is the store
\* before the whole method or the store after it, never one in between.
C15_MutationsLookAtomic ==
    (~Idle /\ ~seen.isNone) =>
        seen.val \in {Graph(pnodes, pedges),
                      WholeMutation(Graph(pnodes, pedges), op, args)}

\* the same for the two methods that run in one write transaction
FriendTransactionsLookAtomic ==
    (op \in {"add_friend", "remove_friend"} /\ ~seen.isNone) =>
        seen.val \in {Graph(pnodes, pedges),
                      WholeMutation(Graph(pnodes, pedges), op, args)}

\* the units of a method, committed one after the other, leave the store
\* the whole method leaves
UnitsMakeTheMethod ==
    (~Idle /\ queued = <<>>) =>
        Here = WholeMutation(Graph(pnodes, pedges), op, args)

=============================================================================
